---------------------------- MODULE Spec2Model ----------------------------
(***************************************************************************)
(* Model of trento's Collider (src/src/collider.cxx): construction of the  *)
(* Collider from the configuration, the event loop run_events() and the    *)
(* minimum-bias rejection sampler sample_collision().                      *)
(*                                                                         *)
(* Lengths (b-min, b-max, radii, interaction range) are integers in units  *)
(* of 0.01 fm.  The impact parameter b = sqrt(x) is carried by its square: *)
(* the variable bsq holds UDen * b^2, where the uniform draw is u = k/UDen *)
(* for k in 0..UDen-1, so that all arithmetic is exact.  An offset c*b of  *)
(* a nucleus is carried by its coefficient c = <<num, den>> together with  *)
(* the bsq it was placed with.                                             *)
(*                                                                         *)
(* Nucleus, NucleonCommon, Event and Output are collaborators whose code   *)
(* is outside collider.cxx: what they return (nucleon positions, the truth *)
(* value of participate, an exception) is a nondeterministic choice.       *)
(***************************************************************************)
EXTENDS Integers, Sequences, FiniteSets, TLC

\* ------------------------------------------------------------- bounds
\* Largest number of events a configuration asks for.
MaxEvents == 2
\* Largest number of impact-parameter trials followed within one call.
MaxTrials == 2
\* Resolution of the uniform draw: u = k / UDen, k in 0..UDen-1.
UDen == 2
\* Number of options in which a configuration differs from DefaultVarMap.
MaxDeviation == 2

\* ------------------------------------------------------ configuration
\* What Nucleus::create makes of a species name: the radius() of the
\* nucleus (0.01 fm) and the number of nucleons it iterates over.
Proton == [ radius |-> 0,   nucleons |-> 1 ]
Light  == [ radius |-> 4,   nucleons |-> 2 ]
Tiny   == [ radius |-> 2,   nucleons |-> 2 ]
Medium == [ radius |-> 120, nucleons |-> 1 ]
Large  == [ radius |-> 200, nucleons |-> 2 ]
Small  == [ radius |-> 100, nucleons |-> 1 ]
Projectiles == { <<Proton, Proton>>, <<Light, Tiny>>, <<Medium, Medium>>,
                 <<Large, Small>> }

\* NucleonCommon::max_impact(), 0.01 fm.
MaxImpact == 60

\* The options Collider reads from var_map.  Negative b-max means "unset".
\* Nothing restricts b-min, b-max or number-events.
AllVarMaps ==
    [ projectile : Projectiles,
      bmin       : {-100, 0, 100},
      bmax       : {-100, 0, 300},
      nevents    : -1..MaxEvents,
      ncoll      : BOOLEAN,
      toColl     : BOOLEAN,
      seed       : {0, 42} ]

DefaultVarMap ==
    [ projectile |-> <<Large, Small>>, bmin |-> 0, bmax |-> -100,
      nevents |-> MaxEvents, ncoll |-> TRUE, toColl |-> TRUE, seed |-> 42 ]

Deviation(c) == Cardinality({ f \in DOMAIN c : c[f] # DefaultVarMap[f] })

\* The configurations a run is started with.
VarMaps == { c \in AllVarMaps : Deviation(c) <= MaxDeviation }

VARIABLES
    var_map,        \* the configuration the Collider is constructed from
    pc,             \* position of the program
    engine,         \* random::engine: "entropy" until seeded explicitly
    drawnFrom,      \* engine states from which a draw has been made
    nucleusA_, nucleusB_,
    nevents_, calc_ncoll_, calc_toColl_, bmin_, bmax_, asymmetry_,
    n,              \* run_events: event index
    bsq,            \* sample_collision: b, as UDen * b^2
    ncoll, collision, nToCollide,
    ia, ib,         \* position of the pair sweep (range-for iterators)
    collision_attr, \* run_events: the tuple returned by sample_collision
    trialsRun,      \* history: b values drawn in the current call
    trialHits,      \* history: pairs that participated in the current trial
    earlierHits,    \* history: pairs that participated in rejected trials
    evals,          \* history: participate evaluations in the current trial
    sampleCalls, computeCalls, outputCalls,
    computedOn,     \* Event: the nucleon sets the last compute saw
    lastOutput,     \* Output: the last record written
    failure         \* the collaborator whose exception ended the run

members == << nucleusA_, nucleusB_, nevents_, calc_ncoll_, calc_toColl_,
              bmin_, bmax_, asymmetry_ >>
locals  == << bsq, ncoll, collision, nToCollide, ia, ib >>
history == << trialsRun, trialHits, earlierHits, evals >>
sinks   == << sampleCalls, computeCalls, outputCalls, computedOn, lastOutput >>
vars    == << var_map, pc, engine, drawnFrom, members, n, locals,
              collision_attr, history, sinks, failure >>

\* A nucleus that has not been created / whose nucleons were never sampled.
NoStamp == << -1, 0 >>
NoNucleus == [ radius |-> 0, nucleons |-> 0, shapeFrom |-> "none",
               offset |-> <<0, 1>>, bsq |-> 0, sampledIn |-> NoStamp ]
NoAttr == << -1, -1, -1 >>
NoOutput == << -1, -1, -1, -1 >>

\* --------------------------------------------------------- construction
\* create_nucleus: gamma and beta2 are drawn from random::engine in
\* whatever state it is in, then the nucleus is created.
create_nucleus(index) ==
    [ radius    |-> var_map.projectile[index + 1].radius,
      nucleons  |-> var_map.projectile[index + 1].nucleons,
      shapeFrom |-> engine,
      offset    |-> <<0, 1>>,
      bsq       |-> 0,
      sampledIn |-> NoStamp ]

determine_bmax_zero_unset(A, B) ==
    IF var_map.bmax <= 0
      THEN A.radius + B.radius + MaxImpact
      ELSE var_map.bmax
determine_bmax(A, B) ==
    IF var_map.bmax < 0
      THEN A.radius + B.radius + MaxImpact
      ELSE var_map.bmax

\* The asymmetry rA/(rA+rB) as <<numerator, denominator>>; 0.1 fm = 10.
AsymThreshold == 10
determine_asym_zero_only(A, B) ==
    LET rA  == A.radius
        rB  == B.radius
        sum == rA + rB
    IN  IF sum = 0 THEN <<1, 2>> ELSE <<rA, sum>>
determine_asym(A, B) ==
    LET rA  == A.radius
        rB  == B.radius
        sum == rA + rB
    IN  IF sum < AsymThreshold THEN <<1, 2>> ELSE <<rA, sum>>

Init ==
    /\ var_map \in VarMaps
    /\ pc = "ctor_nucleusA"
    /\ engine = "entropy"
    /\ drawnFrom = {}
    /\ nucleusA_ = NoNucleus
    /\ nucleusB_ = NoNucleus
    /\ nevents_ = 0
    /\ calc_ncoll_ = FALSE
    /\ calc_toColl_ = FALSE
    /\ bmin_ = 0
    /\ bmax_ = 0
    /\ asymmetry_ = <<1, 2>>
    /\ n = 0
    /\ bsq = 0
    /\ ncoll = 0
    /\ collision = FALSE
    /\ nToCollide = 0
    /\ ia = 1
    /\ ib = 1
    /\ collision_attr = NoAttr
    /\ trialsRun = 0
    /\ trialHits = 0
    /\ earlierHits = 0
    /\ evals = 0
    /\ sampleCalls = 0
    /\ computeCalls = 0
    /\ outputCalls = 0
    /\ computedOn = << NoStamp, NoStamp >>
    /\ lastOutput = NoOutput
    /\ failure = "none"

\* Collider::Collider, member initialiser nucleusA_(create_nucleus(var_map, 0)).
CreateNucleusA ==
    /\ pc = "ctor_nucleusA"
    /\ nucleusA_' = create_nucleus(0)
    /\ drawnFrom' = drawnFrom \cup {engine}
    /\ pc' = "ctor_nucleusB"
    /\ UNCHANGED << var_map, engine, nucleusB_, nevents_, calc_ncoll_,
                    calc_toColl_, bmin_, bmax_, asymmetry_, n, locals,
                    collision_attr, history, sinks, failure >>

\* Member initialiser nucleusB_(create_nucleus(var_map, 1)).
CreateNucleusB ==
    /\ pc = "ctor_nucleusB"
    /\ nucleusB_' = create_nucleus(1)
    /\ drawnFrom' = drawnFrom \cup {engine}
    /\ pc' = "ctor_members"
    /\ UNCHANGED << var_map, engine, nucleusA_, nevents_, calc_ncoll_,
                    calc_toColl_, bmin_, bmax_, asymmetry_, n, locals,
                    collision_attr, history, sinks, failure >>

\* The remaining member initialisers: nevents_ ... asymmetry_.
InitMembers ==
    /\ pc = "ctor_members"
    /\ nevents_' = var_map.nevents
    /\ calc_ncoll_' = var_map.ncoll
    /\ calc_toColl_' = var_map.toColl
    /\ bmin_' = var_map.bmin
    /\ bmax_' = determine_bmax(nucleusA_, nucleusB_)
    /\ asymmetry_' = determine_asym(nucleusA_, nucleusB_)
    /\ pc' = "ctor_body"
    /\ UNCHANGED << var_map, engine, drawnFrom, nucleusA_, nucleusB_, n,
                    locals, collision_attr, history, sinks, failure >>

\* The constructor body: seed the engine if a positive seed is configured.
SeedEngine ==
    /\ pc = "ctor_body"
    /\ engine' = IF var_map.seed > 0 THEN "seeded" ELSE engine
    /\ pc' = "run_events"
    /\ UNCHANGED << var_map, drawnFrom, members, n, locals, collision_attr,
                    history, sinks, failure >>

\* -------------------------------------------------------- sample_collision
\* b = sqrt(bmin^2 + (bmax^2 - bmin^2) * u) for the draw u = k/UDen, as
\* UDen * b^2.
SampleB_linear(k) == bmin_ * UDen + (bmax_ - bmin_) * k
SampleB(k) == bmin_ * bmin_ * UDen + (bmax_ * bmax_ - bmin_ * bmin_) * k

\* The offsets asymmetry_ * b and (asymmetry_ - 1.) * b, as coefficients of b.
OffsetA == asymmetry_
OffsetB_sign == << asymmetry_[2] - asymmetry_[1], asymmetry_[2] >>
OffsetB == << asymmetry_[1] - asymmetry_[2], asymmetry_[2] >>

\* if (new_collision && calc_ncoll_) ++ncoll;
CountCollision_first(new_collision) ==
    IF new_collision /\ calc_ncoll_ /\ ~collision THEN ncoll + 1 ELSE ncoll
CountCollision(new_collision) ==
    IF new_collision /\ calc_ncoll_ THEN ncoll + 1 ELSE ncoll

\* collision = new_collision || collision;
OrCollision_last(new_collision) == new_collision
OrCollision(new_collision) == new_collision \/ collision

\* if (calc_toColl_) nToCollide++;
CountTrial_rejected ==
    IF calc_toColl_ /\ ~collision THEN nToCollide + 1 ELSE nToCollide
CountTrial_otherflag == IF calc_ncoll_ THEN nToCollide + 1 ELSE nToCollide
CountTrial == IF calc_toColl_ THEN nToCollide + 1 ELSE nToCollide

\* } while (!collision);
LoopAgain_ceiling == ~collision /\ trialsRun < MaxTrials
LoopAgain == ~collision

\* for (int n = 0; n < nevents_; ++n)
EventLoopTest_inclusive == n <= nevents_
EventLoopTest == n < nevents_
NextEvent == n + 1

\* run_events: the loop test n < nevents_; either the loop ends or
\* sample_collision is entered and its locals are initialised.
RunEventsLoop_static_counters ==
    /\ pc = "run_events"
    /\ IF EventLoopTest
         THEN /\ pc' = "draw_b"
              /\ sampleCalls' = sampleCalls + 1
              /\ collision' = FALSE
              /\ trialsRun' = 0
              /\ trialHits' = 0
              /\ earlierHits' = 0
              /\ evals' = 0
              /\ UNCHANGED << ncoll, nToCollide >>
         ELSE /\ pc' = "done"
              /\ UNCHANGED << sampleCalls, ncoll, collision, nToCollide,
                              history >>
    /\ UNCHANGED << var_map, engine, drawnFrom, members, n, bsq, ia, ib,
                    collision_attr, computeCalls, outputCalls, computedOn,
                    lastOutput, failure >>
RunEventsLoop ==
    /\ pc = "run_events"
    /\ IF EventLoopTest
         THEN /\ pc' = "draw_b"
              /\ sampleCalls' = sampleCalls + 1
              /\ ncoll' = 0
              /\ collision' = FALSE
              /\ nToCollide' = 0
              /\ trialsRun' = 0
              /\ trialHits' = 0
              /\ earlierHits' = 0
              /\ evals' = 0
         ELSE /\ pc' = "done"
              /\ UNCHANGED << sampleCalls, ncoll, collision, nToCollide,
                              history >>
    /\ UNCHANGED << var_map, engine, drawnFrom, members, n, bsq, ia, ib,
                    collision_attr, computeCalls, outputCalls, computedOn,
                    lastOutput, failure >>

\* One trial begins: b is drawn from the shared engine.
DrawB ==
    /\ pc = "draw_b"
    /\ trialsRun < MaxTrials
    /\ \E k \in 0..(UDen - 1) : bsq' = SampleB(k)
    /\ drawnFrom' = drawnFrom \cup {engine}
    /\ trialsRun' = trialsRun + 1
    /\ evals' = 0
    /\ pc' = "sample_A"
    /\ UNCHANGED << var_map, engine, members, n, ncoll, collision,
                    nToCollide, ia, ib, collision_attr, trialHits,
                    earlierHits, sinks, failure >>

\* nucleusA_->sample_nucleons(asymmetry_ * b): the nucleon set is replaced.
SampleNucleonsA_then_sweep ==
    /\ pc = "sample_A"
    /\ nucleusA_' = [ nucleusA_ EXCEPT !.offset = OffsetA, !.bsq = bsq,
                                       !.sampledIn = << n, trialsRun >> ]
    /\ drawnFrom' = drawnFrom \cup {engine}
    /\ ia' = 1
    /\ ib' = 1
    /\ pc' = "sweep"
    /\ UNCHANGED << var_map, engine, nucleusB_, nevents_, calc_ncoll_,
                    calc_toColl_, bmin_, bmax_, asymmetry_, n, bsq, ncoll,
                    collision, nToCollide, collision_attr, history, sinks,
                    failure >>
SampleNucleonsA ==
    /\ pc = "sample_A"
    /\ nucleusA_' = [ nucleusA_ EXCEPT !.offset = OffsetA, !.bsq = bsq,
                                       !.sampledIn = << n, trialsRun >> ]
    /\ drawnFrom' = drawnFrom \cup {engine}
    /\ pc' = "sample_B"
    /\ UNCHANGED << var_map, engine, nucleusB_, nevents_, calc_ncoll_,
                    calc_toColl_, bmin_, bmax_, asymmetry_, n, locals,
                    collision_attr, history, sinks, failure >>

\* nucleusB_->sample_nucleons((asymmetry_ - 1.) * b); the sweep begins.
SampleNucleonsB ==
    /\ pc = "sample_B"
    /\ nucleusB_' = [ nucleusB_ EXCEPT !.offset = OffsetB, !.bsq = bsq,
                                       !.sampledIn = << n, trialsRun >> ]
    /\ drawnFrom' = drawnFrom \cup {engine}
    /\ ia' = 1
    /\ ib' = 1
    /\ pc' = "sweep"
    /\ UNCHANGED << var_map, engine, nucleusA_, nevents_, calc_ncoll_,
                    calc_toColl_, bmin_, bmax_, asymmetry_, n, bsq, ncoll,
                    collision, nToCollide, collision_attr, history, sinks,
                    failure >>

\* One iteration of the inner loop body: participate(A, B) for the pair
\* (ia, ib), then the iterators advance.
Participate_break ==
    /\ pc = "sweep"
    /\ \E new_collision \in BOOLEAN :
         /\ ncoll' = CountCollision(new_collision)
         /\ collision' = OrCollision(new_collision)
         /\ trialHits' = IF new_collision THEN trialHits + 1 ELSE trialHits
    /\ evals' = evals + 1
    /\ drawnFrom' = drawnFrom \cup {engine}
    /\ IF collision'
         THEN /\ pc' = "end_trial"
              /\ UNCHANGED << ia, ib >>
         ELSE IF ib < nucleusB_.nucleons
                THEN /\ ib' = ib + 1
                     /\ UNCHANGED << ia, pc >>
                ELSE IF ia < nucleusA_.nucleons
                       THEN /\ ia' = ia + 1
                            /\ ib' = 1
                            /\ UNCHANGED pc
                       ELSE /\ pc' = "end_trial"
                            /\ UNCHANGED << ia, ib >>
    /\ UNCHANGED << var_map, engine, members, n, bsq, nToCollide,
                    collision_attr, trialsRun, earlierHits, sinks, failure >>
Participate ==
    /\ pc = "sweep"
    /\ \E new_collision \in BOOLEAN :
         /\ ncoll' = CountCollision(new_collision)
         /\ collision' = OrCollision(new_collision)
         /\ trialHits' = IF new_collision THEN trialHits + 1 ELSE trialHits
    /\ evals' = evals + 1
    /\ drawnFrom' = drawnFrom \cup {engine}
    /\ IF ib < nucleusB_.nucleons
         THEN /\ ib' = ib + 1
              /\ UNCHANGED << ia, pc >>
         ELSE IF ia < nucleusA_.nucleons
                THEN /\ ia' = ia + 1
                     /\ ib' = 1
                     /\ UNCHANGED pc
                ELSE /\ pc' = "end_trial"
                     /\ UNCHANGED << ia, ib >>
    /\ UNCHANGED << var_map, engine, members, n, bsq, nToCollide,
                    collision_attr, trialsRun, earlierHits, sinks, failure >>

\* The end of the loop body: the trial counter, the loop test, and on exit
\* the return of (b, ncoll, nToCollide) into run_events' collision_attr.
EndTrial ==
    /\ pc = "end_trial"
    /\ nToCollide' = CountTrial
    /\ IF LoopAgain
         THEN /\ pc' = "draw_b"
              /\ earlierHits' = earlierHits + trialHits
              /\ trialHits' = 0
              /\ UNCHANGED collision_attr
         ELSE /\ pc' = "compute"
              /\ collision_attr' = << bsq, ncoll, nToCollide' >>
              /\ UNCHANGED << earlierHits, trialHits >>
    /\ UNCHANGED << var_map, engine, drawnFrom, members, n, bsq, ncoll,
                    collision, ia, ib, trialsRun, evals, sinks, failure >>

\* ------------------------------------------------------------- run_events
\* event_.compute(*nucleusA_, *nucleusB_, nucleon_common_);
Compute ==
    /\ pc = "compute"
    /\ computeCalls' = computeCalls + 1
    /\ computedOn' = << nucleusA_.sampledIn, nucleusB_.sampledIn >>
    /\ pc' = "output"
    /\ UNCHANGED << var_map, engine, drawnFrom, members, n, locals,
                    collision_attr, history, sampleCalls, outputCalls,
                    lastOutput, failure >>

\* output_(n, b, ncoll, nToCollide, event_); the loop body ends and ++n.
Output ==
    /\ pc = "output"
    /\ outputCalls' = outputCalls + 1
    /\ lastOutput' = << n, collision_attr[1], collision_attr[2],
                        collision_attr[3] >>
    /\ n' = NextEvent
    /\ pc' = "run_events"
    /\ UNCHANGED << var_map, engine, drawnFrom, members, locals,
                    collision_attr, history, sampleCalls, computeCalls,
                    computedOn, failure >>

\* A collaborator throws; neither sample_collision nor run_events catches,
\* so the exception leaves run_events.
Throw_skip(who) ==
    /\ failure' = who
    /\ pc' = "run_events"
    /\ n' = n + 1
    /\ UNCHANGED << var_map, engine, drawnFrom, members, locals,
                    collision_attr, history, sinks >>
Throw(who) ==
    /\ failure' = who
    /\ pc' = "aborted"
    /\ UNCHANGED << var_map, engine, drawnFrom, members, n, locals,
                    collision_attr, history, sinks >>

NucleusThrows == pc \in {"sample_A", "sample_B"} /\ Throw("nucleus")
ComputeThrows == pc = "compute" /\ Throw("compute")
OutputThrows  == pc = "output" /\ Throw("output")

Next ==
    \/ CreateNucleusA
    \/ CreateNucleusB
    \/ InitMembers
    \/ SeedEngine
    \/ RunEventsLoop
    \/ DrawB
    \/ SampleNucleonsA
    \/ SampleNucleonsB
    \/ Participate
    \/ EndTrial
    \/ Compute
    \/ Output
    \/ NucleusThrows
    \/ ComputeThrows
    \/ OutputThrows

Spec == Init /\ [][Next]_vars

\* The program keeps executing: a single thread that is never suspended.
SpecLive == Spec /\ WF_vars(Next)

\* ------------------------------------------------------------ properties
\* Positions inside a sample_collision call, and after its return.
InCall   == pc \in {"draw_b", "sample_A", "sample_B", "sweep", "end_trial"}
Returned == pc \in {"compute", "output"}
\* Number of pairs of the Cartesian product of the current nucleon sets.
Pairs == nucleusA_.nucleons * nucleusB_.nucleons
\* Pairs that participated so far in the current call, over all its trials.
CallHits == earlierHits + trialHits

\* C1: minimum-bias acceptance.  When sample_collision has returned, the
\* last trial made a full pair sweep with at least one participating pair,
\* no earlier trial of the call had a participating pair, the returned b is
\* the b of that trial and both nuclei hold the nucleon sets sampled in that
\* trial with that b.
MinBiasAcceptance ==
    Returned =>
        /\ evals = Pairs
        /\ trialHits >= 1
        /\ earlierHits = 0
        /\ collision_attr[1] = bsq
        /\ nucleusA_.sampledIn = << n, trialsRun >>
        /\ nucleusB_.sampledIn = << n, trialsRun >>
        /\ nucleusA_.bsq = bsq
        /\ nucleusB_.bsq = bsq

\* A call that returned after a rejected trial, from a sweep of two pairs
\* of which one participated.
MinBiasAcceptanceWitness ==
    /\ pc = "compute"
    /\ trialsRun >= 2
    /\ Pairs >= 2
    /\ trialHits = 1

\* C2: with collision counting enabled, ncoll is at every point of a call
\* the number of pairs that participated in all trials of the call so far,
\* and that total is what the call returns.
NcollIsRunningTotal ==
    calc_ncoll_ =>
        /\ (InCall \/ Returned) => ncoll = CallHits
        /\ Returned => collision_attr[2] = CallHits

\* A returned call, counting enabled, two participating pairs, after a
\* rejected trial.
NcollIsRunningTotalWitness ==
    /\ pc = "compute"
    /\ calc_ncoll_
    /\ trialsRun >= 2
    /\ collision_attr[2] = 2

\* C3: with trial counting enabled the returned trials is the number of b
\* values drawn in the call, at least 1; and a first trial with a
\* participating pair ends the call at once, with trials = 1 and, when
\* collisions are counted, ncoll >= 1.
TrialsCountDraws ==
    /\ [](calc_toColl_ /\ Returned =>
            collision_attr[3] = trialsRun /\ collision_attr[3] >= 1)
    /\ [][ (pc = "end_trial" /\ trialsRun = 1 /\ trialHits >= 1) =>
              /\ pc' = "compute"
              /\ calc_toColl_ => collision_attr'[3] = 1
              /\ calc_ncoll_ => collision_attr'[2] >= 1 ]_vars

\* Both cases: a call that returned after its first trial, and one that
\* returned after a later trial, trial counting enabled.
TrialsCountDrawsWitness ==
    /\ pc = "output"
    /\ calc_toColl_
    /\ n = 1
    /\ lastOutput[4] = 1
    /\ collision_attr[3] = MaxTrials

\* C4: the two flags act independently.  ncoll is the number of
\* participating pairs when collision counting is enabled and 0 otherwise,
\* whatever the trial flag; trials is the number of trials when trial
\* counting is enabled and 0 otherwise, whatever the collision flag; the
\* returned b is the b of the accepted trial and the loop test depends only
\* on whether a pair participated in the trial.
CounterIndependence ==
    /\ (InCall \/ Returned) =>
          ncoll = IF calc_ncoll_ THEN CallHits ELSE 0
    /\ Returned =>
          /\ collision_attr[1] = bsq
          /\ collision_attr[2] = IF calc_ncoll_ THEN CallHits ELSE 0
          /\ collision_attr[3] = IF calc_toColl_ THEN trialsRun ELSE 0
    /\ pc = "end_trial" => (collision <=> trialHits >= 1)

\* Both counters disabled: a call that ran several trials and in which two
\* pairs participated returned zeros.
CounterIndependenceWitness ==
    /\ pc = "compute"
    /\ ~calc_ncoll_
    /\ ~calc_toColl_
    /\ trialsRun >= 2
    /\ trialHits = 2
    /\ collision_attr[2] = 0
    /\ collision_attr[3] = 0

\* The configurations the specification calls invalid: negative b-min,
\* b-max below b-min after derivation, negative number-events.
InvalidConfiguration ==
    \/ var_map.bmin < 0
    \/ determine_bmax(create_nucleus(0), create_nucleus(1)) < var_map.bmin
    \/ var_map.nevents < 0

\* C5: an invalid configuration makes construction fail: the program never
\* gets past the constructor, so no sample_collision call is made, no trial
\* is sampled, no event is computed and nothing is written.
InvalidConfigurationIsFatal ==
    InvalidConfiguration =>
        /\ pc \in {"ctor_nucleusA", "ctor_nucleusB", "ctor_members",
                   "ctor_body"}
        /\ sampleCalls = 0
        /\ trialsRun = 0
        /\ computeCalls = 0
        /\ outputCalls = 0

\* C6: with a positive seed every draw from the shared engine, the draws of
\* create_nucleus included, is made after the seed has been applied, so
\* that the whole run is a function of the seed.
SeededRunDrawsAfterSeeding ==
    var_map.seed > 0 =>
        /\ drawnFrom \subseteq {"seeded"}
        /\ nucleusA_.shapeFrom \in {"none", "seeded"}
        /\ nucleusB_.shapeFrom \in {"none", "seeded"}

\* C7: run_events handles the events 0 .. nevents-1 in order; for each it
\* makes one sample_collision call, then one compute on the nuclei that
\* call left, then one output carrying the event's index and the tuple the
\* call returned; a run that completes has made exactly nevents of each.
EventLoopProtocol ==
    /\ lastOutput[1] = outputCalls - 1
    /\ pc \in {"ctor_nucleusA", "ctor_nucleusB", "ctor_members", "ctor_body",
               "run_events", "done"} =>
          sampleCalls = n /\ computeCalls = n /\ outputCalls = n
    /\ (InCall \/ pc = "compute") =>
          /\ n < nevents_
          /\ sampleCalls = n + 1 /\ computeCalls = n /\ outputCalls = n
    /\ pc = "output" =>
          /\ sampleCalls = n + 1 /\ computeCalls = n + 1 /\ outputCalls = n
          /\ computedOn = << nucleusA_.sampledIn, nucleusB_.sampledIn >>
          /\ computedOn = << <<n, trialsRun>>, <<n, trialsRun>> >>
    /\ (pc \in {"run_events", "done"} /\ n > 0) =>
          /\ lastOutput = << n - 1, collision_attr[1], collision_attr[2],
                             collision_attr[3] >>
          /\ computedOn[1][1] = n - 1
          /\ computedOn[2][1] = n - 1
    /\ pc = "done" => n = IF nevents_ > 0 THEN nevents_ ELSE 0

\* A completed run of MaxEvents events.
EventLoopProtocolWitness ==
    /\ pc = "done"
    /\ nevents_ = MaxEvents
    /\ outputCalls = MaxEvents
    /\ lastOutput[1] = MaxEvents - 1

\* C8: a failure of Nucleus sampling, of compute or of the output during
\* event n ends the run: nothing happens after it, event n has no output,
\* a failed sampling or compute leaves event n without a compute result,
\* and n is neither repeated nor passed over.
FailFast ==
    /\ [](failure # "none" =>
            /\ pc = "aborted"
            /\ n < nevents_
            /\ sampleCalls = n + 1
            /\ outputCalls = n
            /\ computeCalls = IF failure = "output" THEN n + 1 ELSE n)
    /\ [][failure # "none" => UNCHANGED vars]_vars

\* Nucleus sampling failed in the second trial of the second event.
FailFastWitness ==
    /\ pc = "aborted"
    /\ failure = "nucleus"
    /\ n = 1
    /\ trialsRun = 2

\* C9: the rejection loop has no trial ceiling and no error exit: a trial
\* without a participating pair is always followed by another trial,
\* whatever the number of trials so far, a call returns only after a
\* participating pair, and once a pair of a trial has participated the call
\* returns.
UnboundedRetry ==
    /\ [][ (pc = "end_trial" /\ ~collision) =>
              /\ pc' = "draw_b"
              /\ failure' = "none"
              /\ UNCHANGED collision_attr ]_vars
    /\ [](pc = "compute" => collision)
    /\ ((InCall /\ collision) ~> pc = "compute")

\* Another trial is asked for after MaxTrials rejected trials.
UnboundedRetryWitness ==
    /\ pc = "draw_b"
    /\ trialsRun = MaxTrials
    /\ ~collision
    /\ earlierHits = 0

\* Positions at which bsq is the b drawn in the current trial.
DrawnB == pc \in {"sample_A", "sample_B", "sweep", "end_trial", "compute",
                  "output"}

\* C10: with 0 <= bmin <= bmax the b of every trial, accepted or not, has
\* bmin^2 <= b^2 <= bmax^2, that is bmin <= b <= bmax; with bmin = bmax = 0
\* every trial has b = 0 and its pair sweep is still made in full.
ImpactParameterInRange ==
    (0 <= bmin_ /\ bmin_ <= bmax_ /\ DrawnB) =>
        /\ bmin_ * bmin_ * UDen <= bsq
        /\ bsq <= bmax_ * bmax_ * UDen
        /\ bmax_ = 0 => bsq = 0
        /\ (bmax_ = 0 /\ pc = "end_trial") => (Pairs >= 1 /\ evals = Pairs)

\* A rejected trial with b strictly between bmin = 1 fm and bmax = 3 fm.
ImpactParameterInRangeWitness ==
    /\ pc = "end_trial"
    /\ ~collision
    /\ bmin_ = 100
    /\ bmax_ = 300
    /\ bsq > bmin_ * bmin_ * UDen
    /\ bsq < bmax_ * bmax_ * UDen

\* The degenerate range bmin = bmax = 0: a second trial, swept in full.
ZeroRangeSweep ==
    /\ pc = "end_trial"
    /\ bmin_ = 0
    /\ bmax_ = 0
    /\ trialsRun >= 2
    /\ bsq = 0
    /\ evals = Pairs

\* Positions after the member initialisers have run.
MembersSet == pc \notin {"ctor_nucleusA", "ctor_nucleusB", "ctor_members"}
\* The radii of the two configured species.
RadiusA == var_map.projectile[1].radius
RadiusB == var_map.projectile[2].radius

\* C11: bmax is radius(A) + radius(B) + the maximum interaction distance
\* exactly when the configured b-max is negative, and the configured value
\* otherwise, 0 and values below b-min included; radii 1.2 fm and 1.2 fm
\* with range 0.6 fm derive 3.0 fm.  Being this function of the
\* configuration at every later position, it never changes during the run.
BmaxDerivation ==
    MembersSet =>
        /\ var_map.bmax < 0 => bmax_ = RadiusA + RadiusB + MaxImpact
        /\ var_map.bmax >= 0 => bmax_ = var_map.bmax
        /\ (var_map.bmax < 0 /\ RadiusA = 120 /\ RadiusB = 120) => bmax_ = 300

\* A configured b-max of 0, below b-min = 1 fm, is still in force when the
\* run has completed its events.
BmaxDerivationWitness ==
    /\ pc = "done"
    /\ var_map.bmax = 0
    /\ var_map.bmin = 100
    /\ bmax_ = 0
    /\ outputCalls = MaxEvents

\* The derived case of the example: 1.2 fm + 1.2 fm + 0.6 fm = 3.0 fm.
BmaxDerivedExample ==
    /\ pc = "done"
    /\ var_map.bmax < 0
    /\ RadiusA = 120
    /\ RadiusB = 120
    /\ bmax_ = 300

RejectedTrialsCountNothing ==
    /\ pc \in {"draw_b", "sample_A", "sample_B"} => ncoll = 0
    /\ (pc = "end_trial" /\ ~collision) => (ncoll = 0 /\ trialHits = 0)
    /\ InCall => earlierHits = 0
    /\ (Returned /\ calc_ncoll_) =>
          /\ collision_attr[2] = trialHits
          /\ 1 <= collision_attr[2]
          /\ collision_attr[2] <= Pairs

\* Counting enabled: a call returns, after a rejected trial, an ncoll equal
\* to the whole Cartesian product of four pairs.
RejectedTrialsCountNothingWitness ==
    /\ pc = "output"
    /\ calc_ncoll_
    /\ trialsRun >= 2
    /\ Pairs = 4
    /\ collision_attr[2] = Pairs

\* C14: every trial evaluates participate once for every pair of A x B, in
\* the order of the two nested loops and also after a pair has participated;
\* the trial counter and the loop test come only after the |A|*|B|
\* evaluations.
FullPairSweep ==
    /\ pc = "sweep" =>
          /\ 1 <= ia /\ ia <= nucleusA_.nucleons
          /\ 1 <= ib /\ ib <= nucleusB_.nucleons
          /\ evals = (ia - 1) * nucleusB_.nucleons + (ib - 1)
          /\ evals < Pairs
    /\ (pc = "end_trial" \/ Returned) =>
          /\ evals = Pairs
          /\ ia = nucleusA_.nucleons
          /\ ib = nucleusB_.nucleons
    /\ pc \in {"sample_A", "sample_B"} => evals = 0

\* The sweep goes on after a hit: pairs are still to be evaluated although
\* a pair of the first row has already participated.
FullPairSweepWitness ==
    /\ pc = "sweep"
    /\ collision
    /\ Pairs = 4
    /\ ia = 2
    /\ trialHits = 1

\* The stamp of the trial in progress.
ThisTrial == << n, trialsRun >>

\* C15: a trial draws b once, then resamples A, then B, then sweeps the
\* pairs, then updates the trial counter.  A is resampled before B, no pair
\* is evaluated before both nuclei have been resampled in the trial, and the
\* number of b values drawn in a call is the number of its trials.
TrialOrder ==
    /\ [](/\ pc = "sample_A" =>
                /\ nucleusA_.sampledIn # ThisTrial
                /\ nucleusB_.sampledIn # ThisTrial
          /\ pc = "sample_B" =>
                /\ nucleusA_.sampledIn = ThisTrial
                /\ nucleusB_.sampledIn # ThisTrial
          /\ pc \in {"sweep", "end_trial"} =>
                /\ nucleusA_.sampledIn = ThisTrial
                /\ nucleusB_.sampledIn = ThisTrial
          /\ (InCall /\ evals > 0) =>
                /\ nucleusA_.sampledIn = ThisTrial
                /\ nucleusB_.sampledIn = ThisTrial
          /\ (calc_toColl_ /\ pc \in {"sample_A", "sample_B", "sweep",
                                     "end_trial"}) =>
                nToCollide = trialsRun - 1
          /\ (calc_toColl_ /\ (pc = "draw_b" \/ Returned)) =>
                nToCollide = trialsRun)
    /\ [][ /\ pc = "draw_b" => pc' = "sample_A" /\ trialsRun' = trialsRun + 1
           /\ pc = "sample_A" => pc' \in {"sample_B", "aborted"}
           /\ pc = "sample_B" => pc' \in {"sweep", "aborted"}
           /\ pc = "sweep" => pc' \in {"sweep", "end_trial"}
           /\ pc = "end_trial" => pc' \in {"draw_b", "compute"}
           /\ (InCall /\ pc # "draw_b") => trialsRun' = trialsRun ]_vars

\* The second trial of the second event at the point where A has been
\* resampled and B still holds the nucleon set of the trial before.
TrialOrderWitness ==
    /\ pc = "sample_B"
    /\ n = 1
    /\ trialsRun = 2
    /\ nucleusA_.sampledIn = << 1, 2 >>
    /\ nucleusB_.sampledIn = << 1, 1 >>

\* C16: A is placed at asym * b and B at (asym - 1) * b for the b of the
\* same trial: the offsets differ by exactly b, offset(A) >= 0 >= offset(B)
\* (asym lies in [0, 1] and b >= 0), and both were placed with the same b.
AsymmetricPlacement ==
    /\ pc \in {"sample_B", "sweep", "end_trial", "compute", "output"} =>
          /\ nucleusA_.offset = asymmetry_
          /\ nucleusA_.bsq = bsq
    /\ pc \in {"sweep", "end_trial", "compute", "output"} =>
          /\ nucleusB_.bsq = nucleusA_.bsq
          /\ nucleusA_.offset[2] > 0
          /\ nucleusB_.offset[2] > 0
          /\ nucleusB_.offset[1] * asymmetry_[2] =
                (asymmetry_[1] - asymmetry_[2]) * nucleusB_.offset[2]
          /\ nucleusA_.offset[1] * nucleusB_.offset[2]
                  - nucleusB_.offset[1] * nucleusA_.offset[2]
                = nucleusA_.offset[2] * nucleusB_.offset[2]
          /\ nucleusA_.offset[1] >= 0
          /\ nucleusB_.offset[1] <= 0
          /\ bsq >= 0

\* Radii 2 fm and 1 fm, b > 0: A sits at +2/3 b and B at -1/3 b.
AsymmetricPlacementWitness ==
    /\ pc = "sweep"
    /\ bsq > 0
    /\ nucleusA_.offset = << 200, 300 >>
    /\ nucleusB_.offset = << -100, 300 >>

\* C17: every sample_collision call starts with ncoll = 0, trials = 0 and
\* collision = false, so what is reported for an event counts that event's
\* own pairs and trials only; and once constructed the Collider's bmin,
\* bmax, asymmetry, event count and flags (and the seeding of the engine)
\* never change: across events only the nucleus buffers are overwritten.
PerEventFreshness ==
    /\ []((pc = "draw_b" /\ trialsRun = 0) =>
             (ncoll = 0 /\ nToCollide = 0 /\ ~collision))
    /\ [](Returned =>
             /\ collision_attr[2] <= trialHits
             /\ collision_attr[3] <= trialsRun)
    /\ []((pc = "run_events" /\ n > 0) =>
             /\ lastOutput[3] <= Pairs
             /\ lastOutput[4] <= MaxTrials)
    /\ [][ pc \notin {"ctor_nucleusA", "ctor_nucleusB", "ctor_members",
                      "ctor_body"} =>
             /\ UNCHANGED << bmin_, bmax_, asymmetry_, nevents_,
                             calc_ncoll_, calc_toColl_, engine, var_map >>
             /\ nucleusA_'.radius = nucleusA_.radius
             /\ nucleusB_'.radius = nucleusB_.radius
             /\ nucleusA_'.nucleons = nucleusA_.nucleons
             /\ nucleusB_'.nucleons = nucleusB_.nucleons ]_vars

\* The second call starts from zero although the first event reported two
\* participating pairs and two trials.
PerEventFreshnessWitness ==
    /\ pc = "draw_b"
    /\ n = 1
    /\ trialsRun = 0
    /\ lastOutput[3] = 2
    /\ lastOutput[4] = 2
    /\ ncoll = 0
    /\ nToCollide = 0

=============================================================================
